---- MODULE Spec2Model ----
(***************************************************************************)
(* Model of the FMCW radar acquisition driver, software/src/device.c:      *)
(* the bit/flag codec, the resumable frame parser run by the USB read      *)
(* callback, the single-entry sweep slot shared with the consumer, and     *)
(* cancellation by fmcw_close().                                           *)
(*                                                                         *)
(* C arrays are modelled as functions on 0..n-1; a C buffer handed to the  *)
(* callback is a sequence, so buffer[i] in C is buffer[i + 1] here.        *)
(***************************************************************************)
EXTENDS Integers, Sequences, FiniteSets, TLC

\* ------------------------------------------------------------------------
\* Program constants
\* ------------------------------------------------------------------------
BYTE_BITS == 8
START_FLAG == 255
STOP_FLAG == 143

\* ------------------------------------------------------------------------
\* Bounds of the model
\* ------------------------------------------------------------------------
\* Largest number of frames in a well-formed device stream.
MaxFrames == 2
\* Length of the arbitrary (noise) device streams.
NoiseLen == 4

\* ------------------------------------------------------------------------
\* Arithmetic helpers
\* ------------------------------------------------------------------------
RECURSIVE Pow2(_)
Pow2(n) == IF n = 0 THEN 1 ELSE 2 * Pow2(n - 1)

\* a | b on non-negative integers.
RECURSIVE BitOr(_, _)
BitOr(a, b) ==
    IF a = 0 THEN b
    ELSE IF b = 0 THEN a
    ELSE (IF a % 2 = 1 \/ b % 2 = 1 THEN 1 ELSE 0) + 2 * BitOr(a \div 2, b \div 2)

\* a & m on non-negative integers.
RECURSIVE BitAnd(_, _)
BitAnd(a, m) ==
    IF a = 0 \/ m = 0 THEN 0
    ELSE (IF a % 2 = 1 /\ m % 2 = 1 THEN 1 ELSE 0) + 2 * BitAnd(a \div 2, m \div 2)

\* round(sqrt(x)) for a non-negative integer x: with r = floor(sqrt(x)),
\* sqrt(x) >= r + 1/2 iff x > r*r + r.
RoundSqrt(x) ==
    LET r == CHOOSE k \in 0..x : k * k <= x /\ (k + 1) * (k + 1) > x
    IN  IF x > r * r + r THEN r + 1 ELSE r

\* ------------------------------------------------------------------------
\* Bit/flag codec
\* ------------------------------------------------------------------------
RECURSIVE pow2loop(_, _)
pow2loop(val, pow2val) ==
    IF val > pow2val THEN pow2loop(val, pow2val * 2) ELSE pow2val

pow2ceil(val) == pow2loop(val, 1)

num_flags(sample_bits, fft) ==
    LET sb == IF fft THEN sample_bits * 2 ELSE sample_bits
        bytes == sb \div BYTE_BITS + 1
    IN  pow2ceil(bytes)

sample_bytes(sample_bits, fft) ==
    LET sb == IF fft THEN sample_bits * 2 ELSE sample_bits
        bytes == sb \div BYTE_BITS + (IF sb % BYTE_BITS # 0 THEN 1 ELSE 0)
    IN  pow2ceil(bytes)

\* -(u & mask) + (u & ~mask), computed in uint64_t and cast to int.  Every
\* word the model assembles is below 2^16, so the wrapped sum cast to a
\* 32-bit int is the mathematical difference.
signed_val(u, mask) == (u - BitAnd(u, mask)) - BitAnd(u, mask)

sample_val(uval, sample_bits, fft) ==
    LET mask == Pow2(sample_bits - 1)
        lumask == Pow2(sample_bits) - 1
    IN  IF ~fft THEN signed_val(uval, mask)
        ELSE LET luval == BitAnd(uval, lumask)
                 lval == signed_val(luval, mask)
                 uuval == BitAnd(uval, lumask * Pow2(sample_bits)) \div Pow2(sample_bits)
                 upval == signed_val(uuval, mask)
             IN  RoundSqrt(lval * lval + upval * upval)

inc_check_idx(read_idx, length) ==
    IF read_idx + 1 = length THEN 0 ELSE read_idx + 1

\* ------------------------------------------------------------------------
\* State
\* ------------------------------------------------------------------------
VARIABLES
    \* configuration, set by fmcw_start_acquisition
    _sample_bits, _sample_bytes, _nflags, _fft, _sweep_len,
    \* parser state (file-scope statics)
    _start_flags, _stop_flags, _sweep_idx, _byte_idx, _uval, _last_sample,
    \* sweep slot: the malloc'ed block sweep[0 .. _sweep_len-1] and its flag
    sweep, _sweep_valid,
    \* stores made through `sweep` outside the block: a set of <<index, value>>
    sweep_oob,
    \* cancel flag and raw log ([open |-> BOOLEAN, data |-> bytes written])
    _cancel, _log_file,
    \* holder of *mutex: "free", "producer", "consumer" or "control"
    mutex,
    \* position of the producer thread, of the consumer and of fmcw_close()
    producer_thread, consumer, closing,
    \* the device's byte stream, the sweeps it encodes (<<>> for a noise
    \* stream) and the number of bytes handed to callback() so far
    stream, payloads, pos,
    \* caller's array of fmcw_read_sweep and the last return values
    arr, read_ret, callback_ret,
    \* history: the sweeps returned by fmcw_read_sweep, in order
    delivered,
    \* history: a non-empty chunk arrived while the slot was valid
    dropped,
    \* content of the block returned by malloc at start (never initialised)
    stale,
    \* the log_path argument of the last fmcw_start_acquisition ("null" for
    \* NULL, "ok" for a path fopen can open, "bad" for one it cannot), the
    \* value that call returned and the number of calls made so far
    log_path, start_ret, sessions

cfgvars == <<_sample_bits, _sample_bytes, _nflags, _fft, _sweep_len>>
parser == <<_start_flags, _stop_flags, _sweep_idx, _byte_idx, _uval, _last_sample>>
slot == <<sweep, _sweep_valid, sweep_oob>>
threads == <<mutex, producer_thread, consumer, closing>>
device == <<stream, payloads, pos>>
outputs == <<arr, read_ret, callback_ret>>
history == <<delivered, dropped, stale>>
lifecycle == <<log_path, start_ret, sessions>>
vars == <<cfgvars, parser, slot, _cancel, _log_file, threads, device, outputs,
          history, lifecycle>>

\* The parser state and the slot as one value, the argument and result of
\* the parsing functions below.
PState ==
    [start_flags |-> _start_flags, stop_flags |-> _stop_flags,
     sweep_idx |-> _sweep_idx, byte_idx |-> _byte_idx, uval |-> _uval,
     last_sample |-> _last_sample, sweep |-> sweep,
     sweep_valid |-> _sweep_valid, oob |-> sweep_oob]

\* sweep[idx] = val.  The block holds indices 0 .. _sweep_len-1; a store at
\* any other index leaves the block as it is and lands outside it.
sweep_store(p, idx, val) ==
    IF idx \in DOMAIN p.sweep
    THEN [p EXCEPT !.sweep[idx] = val]
    ELSE [p EXCEPT !.oob = @ \cup {<<idx, val>>}]

\* ------------------------------------------------------------------------
\* Frame parser
\* ------------------------------------------------------------------------
\* Mutant of read_start_seq: the loop guard is off by one.
RECURSIVE read_start_seq_overrun(_, _, _, _)
read_start_seq_overrun(p, buffer, length, read_idx) ==
    IF p.start_flags <= _nflags
    THEN LET q == IF buffer[read_idx + 1] = START_FLAG
                  THEN [p EXCEPT !.start_flags = @ + 1]
                  ELSE [p EXCEPT !.start_flags = 0]
             n == inc_check_idx(read_idx, length)
         IN  IF n = 0 THEN [p |-> q, ret |-> 0]
             ELSE read_start_seq_overrun(q, buffer, length, n)
    ELSE [p |-> p, ret |-> read_idx]

RECURSIVE read_start_seq(_, _, _, _)
read_start_seq(p, buffer, length, read_idx) ==
    IF p.start_flags < _nflags
    THEN LET q == IF buffer[read_idx + 1] = START_FLAG
                  THEN [p EXCEPT !.start_flags = @ + 1]
                  ELSE [p EXCEPT !.start_flags = 0]
             n == inc_check_idx(read_idx, length)
         IN  IF n = 0 THEN [p |-> q, ret |-> 0]
             ELSE read_start_seq(q, buffer, length, n)
    ELSE [p |-> p, ret |-> read_idx]

\* The inner loop of read_sample_seq: the bytes of one sample.  eof is TRUE
\* when the loop left the function through `return FALSE`.
RECURSIVE read_sample_bytes(_, _, _, _)
read_sample_bytes(p, buffer, length, read_idx) ==
    IF p.byte_idx < _sample_bytes
    THEN LET shift == BYTE_BITS * (_sample_bytes - 1 - p.byte_idx)
             q == [p EXCEPT !.uval = BitOr(@, buffer[read_idx + 1] * Pow2(shift)),
                            !.byte_idx = @ + 1]
             n == inc_check_idx(read_idx, length)
         IN  IF n = 0 THEN [p |-> q, idx |-> 0, eof |-> TRUE]
             ELSE read_sample_bytes(q, buffer, length, n)
    ELSE [p |-> p, idx |-> read_idx, eof |-> FALSE]

\* Mutant of end_sample: the last sample is stored like the others instead
\* of being held back.
end_sample_no_holdback(p) ==
    LET v == sample_val(p.uval, _sample_bits, _fft)
        q == IF p.sweep_idx < _sweep_len
             THEN sweep_store(p, p.sweep_idx, v)
             ELSE [p EXCEPT !.last_sample = v]
    IN  [q EXCEPT !.byte_idx = 0, !.sweep_idx = @ + 1, !.uval = 0]

\* The end of one pass of the outer loop of read_sample_seq: the assembled
\* word is decoded and stored, or held back when it is the last of the sweep.
end_sample(p) ==
    LET v == sample_val(p.uval, _sample_bits, _fft)
        q == IF p.sweep_idx < _sweep_len - 1
             THEN sweep_store(p, p.sweep_idx, v)
             ELSE [p EXCEPT !.last_sample = v]
    IN  [q EXCEPT !.byte_idx = 0, !.sweep_idx = @ + 1, !.uval = 0]

RECURSIVE read_sample_seq(_, _, _, _)
read_sample_seq(p, buffer, length, read_idx) ==
    IF p.sweep_idx < _sweep_len
    THEN LET w == read_sample_bytes(p, buffer, length, read_idx)
         IN  IF w.eof THEN [p |-> w.p, ret |-> 0]
             ELSE read_sample_seq(end_sample(w.p), buffer, length, w.idx)
    ELSE [p |-> p, ret |-> read_idx]

\* The commit of read_stop_seq: the slot is published.
commit(p) ==
    sweep_store([p EXCEPT !.sweep_valid = TRUE], p.sweep_idx, p.last_sample)

\* Mutant of cleanup: the start run count is not reset.
cleanup_keeps_start(p) ==
    [p EXCEPT !.sweep_idx = 0, !.stop_flags = 0]

\* The cleanup label of read_stop_seq.
cleanup(p) ==
    [p EXCEPT !.sweep_idx = 0, !.start_flags = 0, !.stop_flags = 0]

RECURSIVE read_stop_seq(_, _, _, _)
read_stop_seq(p, buffer, length, read_idx) ==
    IF p.stop_flags < _nflags
    THEN IF buffer[read_idx + 1] = STOP_FLAG
         THEN LET q == [p EXCEPT !.stop_flags = @ + 1]
                  n == inc_check_idx(read_idx, length)
              IN  IF q.stop_flags < _nflags
                  THEN IF n = 0 THEN [p |-> q, ret |-> 0]
                       ELSE read_stop_seq(q, buffer, length, n)
                  ELSE read_stop_seq(q, buffer, length, read_idx)
         ELSE [p |-> cleanup(p), ret |-> inc_check_idx(read_idx, length)]
    ELSE [p |-> cleanup(commit(p)), ret |-> read_idx]

\* The parsing part of callback(): from `int read_idx = 0` to the log label.
\* ret is the value of read_idx there.
parse_chunk(p, buffer, length) ==
    IF p.stop_flags # 0
    THEN read_stop_seq(p, buffer, length, 0)
    ELSE IF p.sweep_idx # 0
    THEN LET s == read_sample_seq(p, buffer, length, 0)
         IN  IF s.ret = 0 THEN s
             ELSE read_stop_seq(s.p, buffer, length, s.ret)
    ELSE LET a == read_start_seq(p, buffer, length, 0)
         IN  IF a.ret = 0 THEN a
             ELSE LET s == read_sample_seq(a.p, buffer, length, a.ret)
                  IN  IF s.ret = 0 THEN s
                      ELSE read_stop_seq(s.p, buffer, length, s.ret)

\* The log label of callback(): what fwrite appends to an open log.
log_write(buffer, length, read_idx) ==
    IF read_idx = 0 THEN SubSeq(buffer, 1, length)
    ELSE SubSeq(buffer, 1, read_idx)

\* ------------------------------------------------------------------------
\* callback() and fmcw_read_sweep() as functions of the state they see
\* ------------------------------------------------------------------------
\* Mutant of cancel_set: the flag is never seen.
cancel_never_seen(cancel) == FALSE

\* `if (_cancel)`
cancel_set(cancel) == cancel # 0

\* Mutant of skip_chunk: only the empty chunk is skipped.
skip_empty_only(length, valid) == length = 0

\* `if (length == 0 || _sweep_valid)`
skip_chunk(length, valid) == length = 0 \/ valid

\* callback(buffer, length) on parser/slot state p with the given cancel
\* flag and log: the state and log it leaves and the value it returns.
callback_result(p, cancel, log, buffer, length) ==
    IF cancel_set(cancel) THEN [p |-> p, log |-> log, ret |-> 1]
    ELSE IF skip_chunk(length, p.sweep_valid) THEN [p |-> p, log |-> log, ret |-> 0]
    ELSE LET r == parse_chunk(p, buffer, length)
         IN  [p |-> r.p,
              log |-> IF log.open
                      THEN [log EXCEPT !.data = @ \o log_write(buffer, length, r.ret)]
                      ELSE log,
              ret |-> 0]

\* Mutant of read_sweep_result: valid is not cleared after the copy.
read_sweep_keeps_valid(valid, buf, out) ==
    IF valid
    THEN [ret |-> TRUE, arr |-> [i \in 0..(_sweep_len - 1) |-> buf[i]], valid |-> TRUE]
    ELSE [ret |-> FALSE, arr |-> out, valid |-> valid]

\* fmcw_read_sweep(out) on a slot (buf, valid): the return value, the
\* caller's array and the valid flag it leaves.
read_sweep_result(valid, buf, out) ==
    IF valid
    THEN [ret |-> TRUE, arr |-> [i \in 0..(_sweep_len - 1) |-> buf[i]], valid |-> FALSE]
    ELSE [ret |-> FALSE, arr |-> out, valid |-> valid]

\* ------------------------------------------------------------------------
\* The device: the wire protocol of the doc comment of fmcw_start_acquisition
\* ------------------------------------------------------------------------
\* A sample the radar sends: a signed component lo and, in FFT mode, a
\* second one hi.  Its meaning is lo, or the rounded magnitude in FFT mode.
DeviceSamples == <<[lo |-> 3, hi |-> -4], [lo |-> -1, hi |-> 2]>>

sample_meaning(s, fft) ==
    IF fft THEN RoundSqrt(s.lo * s.lo + s.hi * s.hi) ELSE s.lo

\* v as a two's-complement field of `bits` bits.
twos(v, bits) == IF v < 0 THEN v + Pow2(bits) ELSE v

\* The sample on the wire: MSB-padded with zeros to nbytes bytes, MSB first.
wire_sample(s, bits, fft, nbytes) ==
    LET word == twos(s.lo, bits) + (IF fft THEN twos(s.hi, bits) * Pow2(bits) ELSE 0)
    IN  [k \in 1..nbytes |-> (word \div Pow2(BYTE_BITS * (nbytes - k))) % Pow2(BYTE_BITS)]

RECURSIVE wire_samples(_, _, _, _, _)
wire_samples(sw, i, bits, fft, nbytes) ==
    IF i > Len(sw) THEN <<>>
    ELSE wire_sample(sw[i], bits, fft, nbytes) \o wire_samples(sw, i + 1, bits, fft, nbytes)

\* One frame: nflags start flags, the samples, nflags stop flags.
wire_frame(sw, bits, fft) ==
    LET nf == num_flags(bits, fft)
    IN  [k \in 1..nf |-> START_FLAG]
        \o wire_samples(sw, 1, bits, fft, sample_bytes(bits, fft))
        \o [k \in 1..nf |-> STOP_FLAG]

RECURSIVE wire_stream(_, _, _, _)
wire_stream(sws, j, bits, fft) ==
    IF j > Len(sws) THEN <<>>
    ELSE wire_frame(sws[j], bits, fft) \o wire_stream(sws, j + 1, bits, fft)

\* The two sweeps a device sends in the model: the samples alternate, so
\* that the positions of a sweep and the two sweeps differ.
DeviceSweeps(len) ==
    { [i \in 1..len |-> DeviceSamples[1 + ((i + o) % 2)]] : o \in 0..1 }

\* The well-formed streams: 1..MaxFrames frames.
DevicePayloads(len) ==
    UNION { [1..k -> DeviceSweeps(len)] : k \in 1..MaxFrames }

\* The noise streams: any NoiseLen bytes among the flags and a sample byte.
NoiseBytes == {START_FLAG, STOP_FLAG, 3}
NoiseStreams == [1..NoiseLen -> NoiseBytes]

\* The sweeps a consumer should see for a device sweep sequence.
expected_sweeps(sws, fft) ==
    [j \in 1..Len(sws) |->
        [i \in 0..(Len(sws[j]) - 1) |-> sample_meaning(sws[j][i + 1], fft)]]

\* ------------------------------------------------------------------------
\* Initial state: after fmcw_open() and fmcw_start_acquisition()
\* ------------------------------------------------------------------------
\* The configurations of the model: <<sample_bits, sweep_len, fft>>.
Configs == { <<12, 2, FALSE>>, <<7, 2, FALSE>>, <<3, 1, TRUE>> }
\* What the block returned by malloc may hold.
StaleValues == {0, 77}

\* The parser state and slot right after fmcw_start_acquisition: the
\* statics are zero, the block is as malloc returned it.
fresh_state(len, garbage) ==
    [start_flags |-> 0, stop_flags |-> 0, sweep_idx |-> 0, byte_idx |-> 0,
     uval |-> 0, last_sample |-> 0, sweep |-> [i \in 0..(len - 1) |-> garbage],
     sweep_valid |-> FALSE, oob |-> {}]

Init ==
    \E c \in Configs, log \in BOOLEAN, garbage \in StaleValues :
      \E sws \in DevicePayloads(c[2]) \cup {<<>>} :
        \E bytes \in (IF sws = <<>> THEN NoiseStreams
                      ELSE {wire_stream(sws, 1, c[1], c[3])}) :
          /\ _sample_bits = c[1]
          /\ _fft = c[3]
          /\ _sample_bytes = sample_bytes(c[1], c[3])
          /\ _nflags = num_flags(c[1], c[3])
          /\ _sweep_len = c[2]
          /\ _start_flags = 0 /\ _stop_flags = 0 /\ _sweep_idx = 0
          /\ _byte_idx = 0 /\ _uval = 0 /\ _last_sample = 0
          /\ sweep = [i \in 0..(c[2] - 1) |-> garbage]
          /\ stale = garbage
          /\ _sweep_valid = FALSE
          /\ sweep_oob = {}
          /\ _cancel = 0
          /\ _log_file = [open |-> log, data |-> <<>>]
          /\ mutex = "free"
          /\ producer_thread = "waiting"
          /\ consumer = "idle"
          /\ closing = "no"
          /\ stream = bytes /\ payloads = sws /\ pos = 0
          /\ arr = [i \in 0..(c[2] - 1) |-> 0]
          /\ read_ret = FALSE /\ callback_ret = 0
          /\ delivered = <<>> /\ dropped = FALSE
          /\ log_path = (IF log THEN "ok" ELSE "null")
          /\ start_ret = TRUE /\ sessions = 1

\* ------------------------------------------------------------------------
\* Actions
\* ------------------------------------------------------------------------
\* ftdi_readstream invokes callback(); callback takes the mutex.
callback_lock ==
    /\ producer_thread = "waiting" /\ mutex = "free"
    /\ mutex' = "producer" /\ producer_thread' = "callback"
    /\ UNCHANGED <<cfgvars, lifecycle, parser, slot, _cancel, _log_file, consumer, closing,
                   device, outputs, history>>

\* The body of callback() on the next `length` bytes of the stream, up to
\* its unlock and return.  A non-zero return ends ftdi_readstream and with
\* it the producer thread.
callback(length) ==
    /\ producer_thread = "callback" /\ mutex = "producer"
    /\ length <= Len(stream) - pos
    /\ LET buffer == SubSeq(stream, pos + 1, pos + length)
           r == callback_result(PState, _cancel, _log_file, buffer, length)
       IN  /\ _start_flags' = r.p.start_flags
           /\ _stop_flags' = r.p.stop_flags
           /\ _sweep_idx' = r.p.sweep_idx
           /\ _byte_idx' = r.p.byte_idx
           /\ _uval' = r.p.uval
           /\ _last_sample' = r.p.last_sample
           /\ sweep' = r.p.sweep
           /\ _sweep_valid' = r.p.sweep_valid
           /\ sweep_oob' = r.p.oob
           /\ _log_file' = r.log
           /\ callback_ret' = r.ret
           /\ producer_thread' = IF r.ret = 0 THEN "waiting" ELSE "exited"
    /\ mutex' = "free"
    /\ pos' = pos + length
    /\ dropped' = (dropped \/ (length > 0 /\ _sweep_valid /\ ~cancel_set(_cancel)))
    /\ UNCHANGED <<cfgvars, lifecycle, _cancel, consumer, closing, stream, payloads,
                   arr, read_ret, delivered, stale>>

\* fmcw_read_sweep takes the mutex.
read_sweep_lock ==
    /\ consumer = "idle" /\ mutex = "free" /\ closing # "closed"
    /\ mutex' = "consumer" /\ consumer' = "reading"
    /\ UNCHANGED <<cfgvars, lifecycle, parser, slot, _cancel, _log_file, producer_thread,
                   closing, device, outputs, history>>

\* The body of fmcw_read_sweep(arr), up to its unlock and return.
fmcw_read_sweep ==
    /\ consumer = "reading" /\ mutex = "consumer"
    /\ LET r == read_sweep_result(_sweep_valid, sweep, arr)
       IN  /\ arr' = r.arr
           /\ read_ret' = r.ret
           /\ _sweep_valid' = r.valid
           /\ delivered' = IF r.ret THEN Append(delivered, r.arr) ELSE delivered
    /\ mutex' = "free" /\ consumer' = "idle"
    /\ UNCHANGED <<cfgvars, lifecycle, parser, sweep, sweep_oob, _cancel, _log_file,
                   producer_thread, closing, device, callback_ret, dropped,
                   stale>>

\* fmcw_close takes the mutex.
close_lock ==
    /\ closing = "no" /\ mutex = "free"
    /\ mutex' = "control" /\ closing' = "locked"
    /\ UNCHANGED <<cfgvars, lifecycle, parser, slot, _cancel, _log_file, producer_thread,
                   consumer, device, outputs, history>>

\* fmcw_close sets the cancel flag and unlocks; it then waits in pthread_join.
close_cancel ==
    /\ closing = "locked" /\ mutex = "control"
    /\ _cancel' = 1
    /\ mutex' = "free" /\ closing' = "joining"
    /\ UNCHANGED <<cfgvars, lifecycle, parser, slot, _log_file, producer_thread, consumer,
                   device, outputs, history>>

\* pthread_join returns once the producer has exited; fmcw_close clears the
\* flag, closes the log and frees the mutex and the sweep block.
close_join ==
    /\ closing = "joining" /\ producer_thread = "exited"
    /\ consumer = "idle" /\ mutex = "free"
    /\ _cancel' = 0
    /\ _log_file' = [_log_file EXCEPT !.open = FALSE]
    /\ mutex' = "freed"
    /\ sweep' = <<>>
    /\ closing' = "closed"
    /\ UNCHANGED <<cfgvars, lifecycle, parser, _sweep_valid, sweep_oob, producer_thread,
                   consumer, device, outputs, history>>

\* One callback on a chunk of any length the stream still holds, the empty
\* chunk included (CHUNKSIZE is far above any stream of the model).
callback_step == \E length \in 0..Len(stream) : callback(length)

Next ==
    \/ callback_lock
    \/ callback_step
    \/ read_sweep_lock
    \/ fmcw_read_sweep
    \/ close_lock
    \/ close_cancel
    \/ close_join

Spec == Init /\ [][Next]_vars

\* ------------------------------------------------------------------------
\* Feeding one frame in two chunks (no consumer, no close)
\* ------------------------------------------------------------------------
InitSplit == Init /\ Len(payloads) = 1

\* The first callback takes a proper non-empty prefix of the frame, the
\* second one the rest.
callback_split ==
    \E length \in 1..Len(stream) :
        /\ IF pos = 0 THEN length < Len(stream) ELSE length = Len(stream) - pos
        /\ callback(length)

NextSplit ==
    \/ callback_lock
    \/ callback_split

SpecSplit == InitSplit /\ [][NextSplit]_vars

\* ------------------------------------------------------------------------
\* fmcw_start_acquisition and the session life cycle
\* ------------------------------------------------------------------------
MaxSampleBits == 32
MaxSweepLen == 2
MaxSessions == 2

\* The kinds of log_path argument.
LogPaths == {"null", "ok", "bad"}

\* fopen(log_path, "w"): the address of a stream, or NULL (0) on failure.
fopen(path) == IF path = "ok" THEN 1 ELSE 0

\* The test `(_log_file = fopen(...)) < 0` of a pointer against 0.
fopen_failed(fp) == fp < 0

\* fmcw_start_acquisition(log_path, sample_bits, sweep_len, fft); `garbage`
\* is what the block returned by malloc holds.  The parser statics and
\* _sweep_valid are not assigned.
fmcw_start_acquisition(path, bits, len, fft, garbage) ==
    /\ sessions = 0 \/ closing = "closed"
    /\ sessions < MaxSessions
    /\ sessions' = sessions + 1
    /\ log_path' = path
    /\ mutex' = "free"
    /\ _fft' = fft
    /\ _sample_bits' = bits
    /\ _sample_bytes' = sample_bytes(bits, fft)
    /\ _nflags' = num_flags(bits, fft)
    /\ _sweep_len' = len
    /\ _log_file' = IF path = "null" THEN _log_file
                    ELSE [open |-> fopen(path) # 0, data |-> <<>>]
    /\ IF path # "null" /\ fopen_failed(fopen(path))
       THEN /\ start_ret' = FALSE
            /\ UNCHANGED <<sweep, stale, producer_thread, arr>>
       ELSE /\ start_ret' = TRUE
            /\ sweep' = [i \in 0..(len - 1) |-> garbage]
            /\ stale' = garbage
            /\ producer_thread' = "waiting"
            /\ arr' = [i \in 0..(len - 1) |-> 0]
    /\ closing' = "no"
    /\ UNCHANGED <<parser, _sweep_valid, sweep_oob, _cancel, consumer, device,
                   read_ret, callback_ret, delivered, dropped>>

\* After fmcw_open(): no session yet, the statics as the loader left them.
InitOpened ==
    /\ _sample_bits = 0 /\ _sample_bytes = 0 /\ _nflags = 0
    /\ _fft = FALSE /\ _sweep_len = 0
    /\ _start_flags = 0 /\ _stop_flags = 0 /\ _sweep_idx = 0
    /\ _byte_idx = 0 /\ _uval = 0 /\ _last_sample = 0
    /\ sweep = <<>> /\ stale = 0 /\ _sweep_valid = FALSE /\ sweep_oob = {}
    /\ _cancel = 0
    /\ _log_file = [open |-> FALSE, data |-> <<>>]
    /\ mutex = "null" /\ producer_thread = "none"
    /\ consumer = "idle" /\ closing = "no"
    /\ stream = <<>> /\ payloads = <<>> /\ pos = 0
    /\ arr = <<>> /\ read_ret = FALSE /\ callback_ret = 0
    /\ delivered = <<>> /\ dropped = FALSE
    /\ log_path = "null" /\ start_ret = FALSE /\ sessions = 0

\* The first call, with any arguments.
start_any ==
    \E path \in LogPaths, bits \in 0..MaxSampleBits, len \in 0..MaxSweepLen,
       fft \in BOOLEAN, garbage \in StaleValues :
        /\ sessions = 0
        /\ fmcw_start_acquisition(path, bits, len, fft, garbage)

NextStart == start_any

SpecStart == InitOpened /\ [][NextStart]_vars

\* fmcw_open() and fmcw_start_acquisition() again after fmcw_close(), with
\* the configuration of the session before.
restart ==
    \E garbage \in StaleValues :
        /\ closing = "closed"
        /\ fmcw_start_acquisition(log_path, _sample_bits, _sweep_len, _fft,
                                  garbage)

\* A first session on a noise stream or on one frame.
InitRestart == Init /\ Len(payloads) <= 1

NextRestart ==
    \/ Next
    \/ restart

SpecRestart == InitRestart /\ [][NextRestart]_vars

\* ------------------------------------------------------------------------
\* Claims
\* ------------------------------------------------------------------------
\* The whole stream has been handed to callback(), nothing is in progress,
\* the session is open and the slot has been drained.
Quiescent ==
    /\ pos = Len(stream)
    /\ producer_thread = "waiting" /\ consumer = "idle" /\ closing = "no"
    /\ ~_sweep_valid

\* C1: a stream of k valid frames, fed in any chunking to a fresh parser
\* with the consumer draining the slot before every further chunk, yields
\* exactly the k encoded sweeps, in order.
C1_AllFramesDelivered ==
    (payloads # <<>> /\ ~dropped /\ Quiescent)
        => delivered = expected_sweeps(payloads, _fft)

\* C2: a published slot holds last_sample at position sweep_len-1: the
\* commit writes it in the step that sets valid.
C2_CommitWritesLast ==
    (_sweep_valid /\ closing # "closed")
        => sweep[_sweep_len - 1] = _last_sample

\* C3: one valid frame fed in two chunks, split at any byte offset, leaves
\* the slot as feeding the frame in one chunk leaves it.
C3_SplitEqualsWhole ==
    (pos = Len(stream) /\ producer_thread = "waiting")
        => LET whole == callback_result(fresh_state(_sweep_len, stale), 0,
                                        [open |-> FALSE, data |-> <<>>],
                                        stream, Len(stream))
           IN  /\ _sweep_valid = whole.p.sweep_valid
               /\ sweep = whole.p.sweep

\* a[i..] is a subsequence of b[j..], in order.
RECURSIVE is_subseq(_, _, _, _)
is_subseq(a, i, b, j) ==
    IF i > Len(a) THEN TRUE
    ELSE IF j > Len(b) THEN FALSE
    ELSE IF a[i] = b[j] THEN is_subseq(a, i + 1, b, j + 1)
    ELSE is_subseq(a, i, b, j + 1)

\* C4: under every interleaving, the sweeps fmcw_read_sweep has returned
\* are whole sweeps of frames of the stream, in increasing stream order
\* (some may be missed; none is torn, stale or out of order).
C4_DeliveredInOrder ==
    payloads # <<>> => is_subseq(delivered, 1, expected_sweeps(payloads, _fft), 1)

\* C5: while valid is true, no callback() invocation changes the slot
\* buffer or the valid flag, whatever bytes it is handed: from the commit
\* on, the slot changes only when fmcw_read_sweep clears valid (or
\* fmcw_close frees the block).
C5_ValidSlotFrozen ==
    [][/\ (callback_step /\ _sweep_valid)
            => (sweep' = sweep /\ _sweep_valid' = _sweep_valid)
       /\ (_sweep_valid /\ ~fmcw_read_sweep /\ ~close_join)
            => (sweep' = sweep /\ _sweep_valid' = _sweep_valid)]_vars

\* A non-empty chunk has been handed to callback() while the slot was
\* valid, and the slot is still valid.
C5_Witness == dropped /\ _sweep_valid /\ pos = Len(stream)

\* C6: fmcw_read_sweep returns true exactly when valid was true; it then
\* copies the slot into the caller's array and clears valid; when it
\* returns false the array, the slot and the parser state are unchanged.
C6_ReadSweepContract ==
    [][fmcw_read_sweep =>
          /\ read_ret' = _sweep_valid
          /\ _sweep_valid => (arr' = sweep /\ ~_sweep_valid' /\ sweep' = sweep)
          /\ ~_sweep_valid => (arr' = arr /\ UNCHANGED <<sweep, _sweep_valid>>)
          /\ UNCHANGED parser]_vars

\* fmcw_read_sweep has returned true and then, with no commit in between,
\* false: the array still holds the sweep it returned.
C6_Witness ==
    /\ delivered # <<>> /\ read_ret = FALSE /\ consumer = "idle"
    /\ arr = delivered[Len(delivered)]

\* The framing counters of the parser state.
framing(p) == <<p.start_flags, p.stop_flags, p.sweep_idx, p.byte_idx, p.uval>>

\* A callback on a non-empty chunk with the slot valid and no cancel.
callback_while_valid ==
    callback_step /\ _sweep_valid /\ _cancel = 0 /\ pos' > pos

ProbeChunks ==
    UNION { LET f == wire_stream(<<sw, sw>>, 1, _sample_bits, _fft)
            IN  { SubSeq(f, a, b) : a \in 1..Len(f), b \in 1..Len(f) } \ {<<>>}
          : sw \in DeviceSweeps(_sweep_len) }

\* The parser is stuck: with the slot drained and no cancel, callback()
\* leaves the parser state and the slot as they are on every probe chunk,
\* hence on every sequence of them.
Stuck ==
    /\ ~_sweep_valid /\ _cancel = 0 /\ closing = "no"
    /\ \A c \in ProbeChunks : parse_chunk(PState, c, Len(c)).p = PState

\* C8: the parser never gets stuck: there is no reachable state in which
\* callback() ignores every later chunk.
C8_NeverStuck == ~Stuck

\* C9: the cancel flag is set by fmcw_close under the lock; a callback that
\* finds it set returns non-zero, releases the lock and leaves the parser
\* state, the slot and the log untouched; otherwise callback returns 0.
C9_CancelStopsCallback ==
    [][/\ (_cancel = 0 /\ _cancel' # 0) => (mutex = "control" /\ closing = "locked")
       /\ callback_step =>
            /\ mutex' = "free"
            /\ IF _cancel # 0
               THEN callback_ret' # 0 /\ UNCHANGED <<parser, slot, _log_file>>
               ELSE callback_ret' = 0]_vars

\* After chunks were parsed, fmcw_close set the flag and the next callback
\* returned the termination code.
C9_Witness ==
    /\ _cancel = 1 /\ callback_ret = 1 /\ producer_thread = "exited"
    /\ mutex = "free" /\ pos > 0

\* C10: with a log sink, the log holds exactly the bytes handed to
\* callback() so far, in order.
C10_LogIsStream ==
    (_log_file.open /\ closing = "no" /\ producer_thread = "waiting")
        => _log_file.data = SubSeq(stream, 1, pos)

\* ------------------------------------------------------------------------
\* Claims on the session life cycle
\* ------------------------------------------------------------------------
\* The arguments of the last fmcw_start_acquisition were a valid
\* configuration: positive sweep_len and sample_bits, and a log path that
\* is NULL or can be opened.
valid_config == _sweep_len > 0 /\ _sample_bits > 0 /\ log_path # "bad"

\* C11: fmcw_start_acquisition returns false and starts no producer when
\* sweep_len is zero, sample_bits is zero or the log path cannot be
\* opened; it returns true only for a valid configuration.
C11_StartValidates ==
    sessions = 1 =>
        /\ start_ret <=> valid_config
        /\ ~valid_config => producer_thread = "none"

\* C12: fmcw_close clears all acquisition state: right after a later
\* fmcw_open and fmcw_start_acquisition the parser is in its initial state
\* (start run, stop run, sample and byte position and accumulator zero)
\* and valid is false.
C12_RestartIsFresh ==
    [][restart => (framing(PState)' = <<0, 0, 0, 0, 0>> /\ ~_sweep_valid')]_vars

\* ------------------------------------------------------------------------
\* Claims on the phases of the parser
\* ------------------------------------------------------------------------
\* A callback that parses a chunk of exactly one byte.
callback_one_byte ==
    callback_step /\ ~_sweep_valid /\ _cancel = 0 /\ pos' = pos + 1

\* All _sweep_len samples of the frame in progress are decoded.
await_stop == _stop_flags > 0 \/ _sweep_idx = _sweep_len

\* C13: with all samples decoded, a byte other than STOP_FLAG discards the
\* sweep: valid is not set, the slot is not written, _sweep_idx and
\* _stop_flags are 0 again and the parser awaits a start run.
C13_BadStopDiscards ==
    [][(callback_one_byte /\ await_stop /\ stream[pos + 1] # STOP_FLAG)
          => /\ ~_sweep_valid'
             /\ UNCHANGED <<sweep, sweep_oob>>
             /\ _sweep_idx' = 0 /\ _stop_flags' = 0 /\ _byte_idx' = 0]_vars

\* The start run is complete and no sample byte has been read yet.
start_run_complete ==
    /\ _start_flags = _nflags /\ _stop_flags = 0
    /\ _sweep_idx = 0 /\ _byte_idx = 0 /\ _uval = 0

\* C14: once the start run has reached _nflags the parser reads samples,
\* also when the run ended with the last byte of a chunk: the first byte
\* of the next chunk is taken as the first byte of the first sample.
C14_StartThenSample ==
    [][(callback_one_byte /\ start_run_complete)
          => /\ _byte_idx' = 1
             /\ _uval' = stream[pos + 1] * Pow2(BYTE_BITS * (_sample_bytes - 1))]_vars

\* A callback that parses a non-empty chunk.
callback_parsing ==
    callback_step /\ ~_sweep_valid /\ _cancel = 0 /\ pos' > pos

\* The parse of a chunk when the phase of its first byte is chosen by the
\* persisted state: stop run if _stop_flags > 0, else samples if
\* _sweep_idx > 0 or _byte_idx > 0, else start run.
phase_chunk(p, buffer, length) ==
    IF p.stop_flags > 0
    THEN read_stop_seq(p, buffer, length, 0)
    ELSE IF p.sweep_idx > 0 \/ p.byte_idx > 0
    THEN LET s == read_sample_seq(p, buffer, length, 0)
         IN  IF s.ret = 0 THEN s
             ELSE read_stop_seq(s.p, buffer, length, s.ret)
    ELSE parse_chunk(p, buffer, length)

\* C15: at every return of callback() the phase of the next byte is
\* AwaitStop if _stop_flags > 0, else ReadSamples if _sweep_idx > 0 or
\* _byte_idx > 0, else AwaitStart: the next chunk is parsed in that phase.
C15_PhaseFromState ==
    [][callback_parsing
          => LET length == pos' - pos
                 buffer == SubSeq(stream, pos + 1, pos')
             IN  PState' = phase_chunk(PState, buffer, length).p]_vars

\* ------------------------------------------------------------------------
\* Claims on the invariants of the parser state
\* ------------------------------------------------------------------------
\* No callback is running: the producer is between two invocations.
between_callbacks == producer_thread = "waiting"

\* C16 as stated: between callbacks the counters are within
\* 0 <= start_run <= nflags, 0 <= stop_run <= nflags,
\* 0 <= sweep_idx <= sweep_len and 0 <= byte_idx < sample_bytes.
C16_CountersStrict ==
    between_callbacks =>
        /\ _start_flags \in 0.._nflags
        /\ _stop_flags \in 0.._nflags
        /\ _sweep_idx \in 0.._sweep_len
        /\ _byte_idx \in 0..(_sample_bytes - 1)

\* C16 (amended): the same bounds with 0 <= byte_idx <= sample_bytes; the
\* value sample_bytes is held when a chunk ended with the last byte of a
\* sample, which is decoded by the next callback.
C16_CountersInRange ==
    between_callbacks =>
        /\ _start_flags \in 0.._nflags
        /\ _stop_flags \in 0.._nflags
        /\ _sweep_idx \in 0.._sweep_len
        /\ _byte_idx \in 0.._sample_bytes

\* A chunk has ended with the last byte of a sample that is not the first
\* of its sweep: the sample is complete and not yet decoded.
C16_Witness ==
    /\ between_callbacks /\ pos > 0
    /\ _byte_idx = _sample_bytes /\ _sweep_idx > 0

\* C17: _stop_flags > 0 implies that all samples of the frame are decoded
\* (_sweep_idx = _sweep_len, _byte_idx = 0, _uval = 0), that
\* sweep[0 .. _sweep_len-2] holds the first _sweep_len-1 decoded samples
\* of a frame of the stream and that _last_sample holds the last one, not
\* yet published (before the first commit the last position of the block
\* is still as malloc left it).
C17_StopRunSamplesDecoded ==
    _stop_flags > 0 =>
        /\ _sweep_idx = _sweep_len /\ _byte_idx = 0 /\ _uval = 0
        /\ ~_sweep_valid
        /\ (payloads # <<>> /\ closing # "closed") =>
              /\ \E j \in 1..Len(payloads) :
                    LET decoded == expected_sweeps(payloads, _fft)[j]
                    IN  /\ \A i \in 0..(_sweep_len - 2) : sweep[i] = decoded[i]
                        /\ _last_sample = decoded[_sweep_len - 1]
              /\ delivered = <<>> => sweep[_sweep_len - 1] = stale

\* A chunk of a valid stream has ended inside the stop run of the second
\* frame, the first one having been read.
C17_Witness ==
    /\ _stop_flags > 0 /\ between_callbacks
    /\ payloads # <<>> /\ Len(delivered) = 1 /\ closing = "no"

\* ------------------------------------------------------------------------
\* Claims on the sample width
\* ------------------------------------------------------------------------
\* The number of payload bits of one sample word.
word_bits == _sample_bits * (IF _fft THEN 2 ELSE 1)

\* C18: for every sample_bits in 1..32 and both values of fft, the width
\* sample_bytes() returns leaves at least one padding bit above the
\* payload: 8 * sample_bytes > W.
C18_PaddingBit ==
    (sessions = 1 /\ _sample_bits \in 1..32)
        => BYTE_BITS * _sample_bytes > word_bits

\* ------------------------------------------------------------------------
\* Claims on the sweep slot
\* ------------------------------------------------------------------------
\* C19: every store the parser makes through `sweep` has an index in
\* 0 .. _sweep_len-1, the block allocated by fmcw_start_acquisition.
C19_StoresInBlock == \A w \in sweep_oob : w[1] \in 0..(_sweep_len - 1)

\* C20: whenever the slot is valid and the mutex is free, the parser is in
\* its initial state: _start_flags, _stop_flags, _sweep_idx, _byte_idx and
\* _uval are 0.
C20_ValidMeansIdleParser ==
    (_sweep_valid /\ mutex = "free") => framing(PState) = <<0, 0, 0, 0, 0>>

\* A sweep has been committed by a callback and is waiting to be read.
C20_Witness ==
    /\ _sweep_valid /\ mutex = "free" /\ pos > 0 /\ closing = "no"
    /\ producer_thread = "waiting"

====
